---------------------------- MODULE Spec2Model ----------------------------
(***************************************************************************)
(* A model of the symbol-masks extension: the ScopedDocument tokenizer     *)
(* (src/src/scoped-document.ts), the MaskController (printed in            *)
(* src/README.md from line 97 on) and the activation glue with its         *)
(* debounced update pass (src/src/extension.ts).                           *)
(*                                                                         *)
(* Text is held in TLA+ strings; offsets, lines and characters are 0-based *)
(* as in the source.                                                       *)
(***************************************************************************)
EXTENDS Integers, Sequences, FiniteSets, TLC

(***************************************************************************)
(* Bounds of the model.                                                    *)
(***************************************************************************)
MaxDocLen == 2
MaxSel == 2

(***************************************************************************)
(* Strings.                                                                *)
(***************************************************************************)
\* String.prototype.startsWith
StartsWith(s, p) == Len(s) >= Len(p) /\ SubSeq(s, 1, Len(p)) = p

\* String.prototype.substring(n)
Substring(s, n) == SubSeq(s, n + 1, Len(s))

\* the character at a 0-based index
CharAt(s, i) == SubSeq(s, i + 1, i + 1)

Alphabet == {"a", "b", "#", "\n"}

RECURSIVE StringsUpTo(_)
StringsUpTo(n) ==
    IF n = 0 THEN {""}
    ELSE LET shorter == StringsUpTo(n - 1)
         IN shorter \cup {s \o c : s \in shorter, c \in Alphabet}

Min(a, b) == IF a < b THEN a ELSE b
Max(a, b) == IF a < b THEN b ELSE a

(***************************************************************************)
(* vscode.TextDocument: line and position arithmetic over the text.        *)
(***************************************************************************)
\* the number of line breaks among the first `offset` characters
NewlinesBefore(text, offset) ==
    Cardinality({i \in 1..offset : SubSeq(text, i, i) = "\n"})

LineCount(text) == NewlinesBefore(text, Len(text)) + 1

\* offset of the first character of a line
LineStart(text, line) ==
    IF line = 0 THEN 0
    ELSE CHOOSE k \in 1..Len(text) :
            SubSeq(text, k, k) = "\n" /\ NewlinesBefore(text, k) = line

\* offset just past the last character of a line (its line break excluded)
LineEnd(text, line) ==
    IF line + 1 >= LineCount(text) THEN Len(text)
    ELSE LineStart(text, line + 1) - 1

\* document.lineAt(line).text
LineText(text, line) == SubSeq(text, LineStart(text, line) + 1, LineEnd(text, line))

\* document.positionAt(offset)
PositionAt(text, offset) ==
    LET line == NewlinesBefore(text, offset)
    IN [line |-> line, character |-> offset - LineStart(text, line)]

\* document.offsetAt(position)
OffsetAt(text, pos) == LineStart(text, pos.line) + pos.character

Positions(text) == {PositionAt(text, o) : o \in 0..Len(text)}

\* Position.isBefore
IsBefore(p, q) == p.line < q.line \/ (p.line = q.line /\ p.character < q.character)


(***************************************************************************)
(* State.                                                                  *)
(***************************************************************************)
VARIABLES
    \* the host editor (vscode)
    docText,            \* editor -> the text of its document
    isDirty,            \* editor -> TextDocument.isDirty
    selections,         \* editor -> TextEditor.selections
    cursorStyle,        \* the setting editor.cursorStyle
    activeTextEditor,   \* vscode.window.activeTextEditor (NoEditor: undefined)
    userMasks,          \* the setting symbolMasks.masks, as the host holds it
    decorations,        \* editor -> decoration type -> the ranges it renders
    nextResource,       \* decoration types the cache or an editor refers to
    \* MaskController
    editor,             \* MaskController.editor
    decorationTypeMap,  \* MaskController.decorationTypeMap: key -> resource
    \* ScopedDocument
    document,           \* ScopedDocument.document (the editor whose document)
    grammar,            \* ScopedDocument.grammar (NoGrammar: null)
    grammarState,       \* ScopedDocument.grammarState: line -> rule stack
    \* activate()'s closure
    configuration,      \* the configuration snapshot updateMasks reads
    timeout,            \* the handle of the last timer set
    timers,             \* the host's pending timers
    languageScopeName,
    awaiting,           \* handlers suspended at an await of loadGrammar
    \* history: what the last step did, for stating the properties, and the
    \* number of calls or events so far, for bounding the behaviours
    last

vars == <<docText, isDirty, selections, cursorStyle, activeTextEditor, userMasks,
          decorations, nextResource, editor, decorationTypeMap, document,
          grammar, grammarState, configuration, timeout, timers,
          languageScopeName, awaiting, last>>

hostVars == <<docText, isDirty, selections, cursorStyle, activeTextEditor, userMasks>>
controllerVars == <<decorations, nextResource, editor, decorationTypeMap>>
tokenizerVars == <<document, grammar, grammarState>>
extensionVars == <<configuration, timeout, timers, languageScopeName, awaiting>>

NoEditor == 0
NoGrammar == ""
Null == "null"

(***************************************************************************)
(* The grammar provider (vscode-textmate), as the tokenizer sees it:       *)
(* tokenizeLine(text, prevState) -> tokens and the rule stack at the end   *)
(* of the line.  Two small grammars stand for the installed ones: "#"      *)
(* opens and closes a block comment, which may span lines.                 *)
(***************************************************************************)
Grammars == {"source.ts", "source.js"}

InitialStack == "code"

ScopesOf(g, stack, c) ==
    IF stack = "comment" \/ c = "#" THEN <<g, "comment.block">>
    ELSE IF c = "a"
         THEN <<g, IF g = "source.ts" THEN "keyword.operator.comparison"
                                      ELSE "keyword.operatorx">>
    ELSE IF c = "b"
         THEN <<g, IF g = "source.ts" THEN "keyword.operatorx"
                                      ELSE "keyword.operator">>
    ELSE <<g>>

StackAfter(stack, c) ==
    IF c # "#" THEN stack
    ELSE IF stack = "comment" THEN "code" ELSE "comment"

RECURSIVE TokenizeFrom(_, _, _, _, _)
TokenizeFrom(g, text, i, stack, tokens) ==
    IF i >= Len(text) THEN [tokens |-> tokens, ruleStack |-> stack]
    ELSE LET c == CharAt(text, i)
             scopes == ScopesOf(g, stack, c)
             n == Len(tokens)
             merged == IF n > 0 /\ tokens[n].scopes = scopes
                       THEN [tokens EXCEPT ![n].endIndex = i + 1]
                       ELSE Append(tokens, [startIndex |-> i, endIndex |-> i + 1,
                                            scopes |-> scopes])
         IN TokenizeFrom(g, text, i + 1, StackAfter(stack, c), merged)

\* IGrammar.tokenizeLine(text, prevState)
TokenizeLine(g, text, prevState) ==
    TokenizeFrom(g, text, 0, IF prevState = Null THEN InitialStack ELSE prevState, <<>>)

(***************************************************************************)
(* ScopedDocument (src/src/scoped-document.ts).                            *)
(***************************************************************************)
\* this.grammarState.get(line) || null
StateGet(states, line) == IF line \in DOMAIN states THEN states[line] ELSE Null

EmptyMap == [k \in {} |-> Null]

\* a getTokens that falls back on a grammar when none is loaded
GetTokens_Fallback(lineNumber) ==
    LET prevState == StateGet(grammarState, lineNumber - 1)
        text == IF document # NoEditor THEN LineText(docText[document], lineNumber)
                ELSE ""
        g == IF grammar = NoGrammar THEN "source.ts" ELSE grammar
    IN [defined |-> TRUE, tokens |-> TokenizeLine(g, text, prevState).tokens]

\* getTokens(lineNumber): undefined without a grammar
GetTokens(lineNumber) ==
    LET prevState == StateGet(grammarState, lineNumber - 1)
        text == IF document # NoEditor THEN LineText(docText[document], lineNumber)
                ELSE ""
    IN IF grammar = NoGrammar THEN [defined |-> FALSE, tokens |-> <<>>]
       ELSE [defined |-> TRUE, tokens |-> TokenizeLine(grammar, text, prevState).tokens]

\* a getTokens that stores the end-state of the line it tokenized
GetTokensStates_Store(lineNumber) ==
    IF grammar = NoGrammar THEN grammarState
    ELSE (lineNumber :>
             TokenizeLine(grammar,
                          IF document # NoEditor
                          THEN LineText(docText[document], lineNumber) ELSE "",
                          StateGet(grammarState, lineNumber - 1)).ruleStack) @@ grammarState

\* the continuation-state map after getTokens(lineNumber): lines 53-54 only
\* read it, and tokenizeLine does not change the state it is given
GetTokensStates(lineNumber) == grammarState

\* a loop that tokenizes every line from the initial state
RECURSIVE TokenizeLines_Isolated(_, _, _, _)
TokenizeLines_Isolated(g, text, i, states) ==
    IF i >= LineCount(text) THEN states
    ELSE TokenizeLines_Isolated(g, text, i + 1,
             (i :> TokenizeLine(g, LineText(text, i), Null).ruleStack) @@ states)

\* the loop of tokenize(): lines i .. lineCount-1, each from the state stored
\* for the line before it
RECURSIVE TokenizeLines(_, _, _, _)
TokenizeLines(g, text, i, states) ==
    IF i >= LineCount(text) THEN states
    ELSE LET prevState == StateGet(states, i - 1)
             tokens == TokenizeLine(g, LineText(text, i), prevState)
         IN TokenizeLines(g, text, i + 1, (i :> tokens.ruleStack) @@ states)

\* a tokenize() that keeps the entries of the map
ClearStates_Keep(states) == states

\* this.grammarState.clear(), line 61
ClearStates(states) == EmptyMap

\* tokenize() on a continuation-state map: the map it leaves
TokenizedFrom(states, doc, g) ==
    IF doc # NoEditor /\ g # NoGrammar
    THEN TokenizeLines(g, docText[doc], 0, ClearStates(states))
    ELSE ClearStates(states)

\* tokenize() in the current state
Tokenized(doc, g) == TokenizedFrom(grammarState, doc, g)

(***************************************************************************)
(* Regular expressions.  A pattern source is an alternation of literals,   *)
(* "a|b", tried in order at each offset as the engine does; an empty       *)
(* alternative matches the empty string.  A source with an unbalanced "("  *)
(* does not compile.                                                       *)
(***************************************************************************)
IndexOf(s, c) ==
    LET hits == {i \in 1..Len(s) : SubSeq(s, i, i) = c}
    IN IF hits = {} THEN 0 ELSE CHOOSE i \in hits : \A j \in hits : i <= j

RECURSIVE SplitAlternatives(_)
SplitAlternatives(source) ==
    LET k == IndexOf(source, "|")
    IN IF k = 0 THEN <<source>>
       ELSE <<SubSeq(source, 1, k - 1)>> \o SplitAlternatives(SubSeq(source, k + 1, Len(source)))

\* new RegExp(source, "g"): a fresh object, its lastIndex 0
NewRegExp(source) ==
    [source |-> source, alternatives |-> SplitAlternatives(source), lastIndex |-> 0]

\* the first alternative, in order, found in text at offset i (0: none)
AlternativeAt(regex, text, i) ==
    LET alts == regex.alternatives
        hits == {k \in 1..Len(alts) :
                    i + Len(alts[k]) <= Len(text)
                    /\ SubSeq(text, i + 1, i + Len(alts[k])) = alts[k]}
    IN IF hits = {} THEN 0 ELSE CHOOSE k \in hits : \A j \in hits : k <= j

\* RegExp.prototype.exec(text) of a global expression: the leftmost match at
\* or after lastIndex, and the lastIndex it leaves
Exec(regex, text) ==
    LET starts == {i \in regex.lastIndex..Len(text) : AlternativeAt(regex, text, i) # 0}
    IN IF starts = {}
       THEN [found |-> FALSE, index |-> 0, text |-> "", lastIndex |-> 0]
       ELSE LET i == CHOOSE x \in starts : \A y \in starts : x <= y
                m == regex.alternatives[AlternativeAt(regex, text, i)]
            IN [found |-> TRUE, index |-> i, text |-> m, lastIndex |-> i + Len(m)]

(***************************************************************************)
(* MaskController (src/README.md, lines 97-427).                           *)
(*                                                                         *)
(* A mask is [type, text, entries, scope]: type "string" with the literal  *)
(* in text, type "object" with the match based replacements in entries     *)
(* (records [key, scope, text]), or type "undefined"; scope "" is no       *)
(* scope.                                                                  *)
(***************************************************************************)
Separator == "@@@"

NoMatchReplace == [defined |-> FALSE, scope |-> "", text |-> "", color |-> ""]

\* a lookup that never finds the entry of the matched text
MatchReplace_NoHit(mask, matched) == NoMatchReplace

\* lines 286-291: the match based replacement of the matched text
MatchReplace(mask, matched) ==
    IF mask.type = "object" /\ \E e \in mask.entries : e.key = matched
    THEN LET e == CHOOSE e \in mask.entries : e.key = matched
         IN [defined |-> TRUE, scope |-> e.scope, text |-> e.text, color |-> e.color]
    ELSE NoMatchReplace

\* Selection.start and Selection.end: the host orders anchor and active
SelectionStart(sel) == IF IsBefore(sel.active, sel.anchor) THEN sel.active ELSE sel.anchor
SelectionEnd(sel) == IF IsBefore(sel.active, sel.anchor) THEN sel.anchor ELSE sel.active

\* the test without the widening for block and underline carets
Intersects_Exact(style, selectionStart, selectionEnd, index, length) ==
    selectionEnd >= index /\ selectionStart <= index + length

\* lines 304-314: whether a selection reveals the match
Intersects(style, selectionStart, selectionEnd, index, length) ==
    IF StartsWith(style, "line")
    THEN selectionEnd >= index /\ selectionStart <= index + length
    ELSE selectionEnd >= index - 1 /\ selectionStart <= index + length

\* lines 336-342 and 348-354: a token scope is within the filter scope
ScopeWithin(scope, filter) ==
    StartsWith(scope, filter)
    /\ LET remainder == Substring(scope, Len(filter))
       IN Len(remainder) = 0 \/ StartsWith(remainder, ".")

\* lines 324-363: what the scope test makes of decorateSymbol
ScopeDecision(mask, matchReplace, startPos) ==
    IF mask.scope # "" \/ matchReplace.scope # ""
    THEN LET lineTokens == GetTokens(startPos.line)
         IN lineTokens.defined
            /\ \E t \in 1..Len(lineTokens.tokens) :
                 LET token == lineTokens.tokens[t]
                     filter == IF matchReplace.scope # "" THEN matchReplace.scope
                               ELSE mask.scope
                 IN startPos.character >= token.startIndex
                    /\ startPos.character < token.endIndex
                    /\ \E s \in 1..Len(token.scopes) : ScopeWithin(token.scopes[s], filter)
    ELSE TRUE

\* a loop that decides by the scope alone when there is no selection
RECURSIVE SelectionLoop_Default(_, _, _, _, _, _, _, _)
SelectionLoop_Default(text, sels, i, decorateSymbol, style, index, length, scopeOk) ==
    IF i > Len(sels) THEN decorateSymbol \/ (Len(sels) = 0 /\ scopeOk)
    ELSE LET s0 == OffsetAt(text, SelectionStart(sels[i]))
             e0 == OffsetAt(text, SelectionEnd(sels[i]))
         IN IF Intersects(style, Min(s0, e0), Max(s0, e0), index, length)
            THEN FALSE
            ELSE SelectionLoop_Default(text, sels, i + 1, decorateSymbol \/ scopeOk, style,
                                       index, length, scopeOk)

\* lines 294-364: the loop over the carets, from selection i on
RECURSIVE SelectionLoop(_, _, _, _, _, _, _, _)
SelectionLoop(text, sels, i, decorateSymbol, style, index, length, scopeOk) ==
    IF i > Len(sels) THEN decorateSymbol
    ELSE LET s0 == OffsetAt(text, SelectionStart(sels[i]))
             e0 == OffsetAt(text, SelectionEnd(sels[i]))
             selectionStart == IF e0 < s0 THEN e0 ELSE s0
             selectionEnd == IF e0 < s0 THEN s0 ELSE e0
         IN IF Intersects(style, selectionStart, selectionEnd, index, length)
            THEN FALSE
            ELSE IF decorateSymbol
                 THEN SelectionLoop(text, sels, i + 1, TRUE, style, index, length, scopeOk)
                 ELSE SelectionLoop(text, sels, i + 1, scopeOk, style, index, length, scopeOk)

\* the decoration types the cache or the ranges of an editor refer to
InUse(map, shown) ==
    {map[k].resource : k \in DOMAIN map} \cup UNION {DOMAIN shown[e] : e \in DOMAIN shown}

\* the decoration type createTextEditorDecorationType returns: one that
\* nothing refers to yet
NewResource(used) == CHOOSE r \in 1..(Cardinality(used) + 1) : r \notin used

\* lines 228-251: initialize(id, mask) on a cache and the host's counter
Initialize(cache, id, mask) ==
    IF id \in DOMAIN cache.map THEN cache
    ELSE [map |-> cache.map @@ (id :> [resource |-> NewResource(cache.used),
                                      contentText |-> IF mask.type = "string"
                                                      THEN mask.text ELSE "",
                                      color |-> mask.color]),
          used |-> cache.used \cup {NewResource(cache.used)},
          created |-> cache.created + 1]

\* lines 280-400: one match of positive length
ProcessMatch(acc, regex, mask, m) ==
    LET text == docText[editor]
        startPos == PositionAt(text, m.index)
        endPos == PositionAt(text, m.index + Len(m.text))
        matchReplace == MatchReplace(mask, m.text)
        decorateSymbol ==
            SelectionLoop(text, selections[editor], 1, FALSE, cursorStyle, m.index,
                          Len(m.text), ScopeDecision(mask, matchReplace, startPos))
        keyed == matchReplace.text # ""
        decorationKey == IF keyed THEN regex.source \o Separator \o matchReplace.text
                         ELSE regex.source
        cache == IF keyed /\ decorationKey \notin acc.matchReplaceKeys
                 THEN Initialize(acc.cache, decorationKey,
                                 [type |-> "string", text |-> matchReplace.text,
                                  entries |-> {}, scope |-> matchReplace.scope,
                                  color |-> matchReplace.color])
                 ELSE acc.cache
        options == IF decorationKey \in DOMAIN acc.decorationOptions
                   THEN acc.decorationOptions
                   ELSE acc.decorationOptions @@ (decorationKey :> <<>>)
    IN IF ~decorateSymbol THEN acc
       ELSE [acc EXCEPT
               !.cache = cache,
               !.matchReplaceKeys = IF keyed THEN @ \cup {decorationKey} ELSE @,
               !.decorationOptions =
                   [options EXCEPT ![decorationKey] =
                       Append(@, [start |-> startPos, end |-> endPos])]]

\* a scan without the guard
BreakOnMatch_Never(m) == FALSE

\* lines 276-279: exec returned a match; an empty one ends the scan
BreakOnMatch(m) == Len(m.text) = 0

\* lines 275-401: the scan, with the iterations it may still take
RECURSIVE Scan(_, _, _, _)
Scan(regex, mask, acc, fuel) ==
    LET m == Exec(regex, docText[editor])
    IN IF fuel = 0 THEN [acc EXCEPT !.terminated = FALSE]
       ELSE IF ~m.found THEN acc
       ELSE IF BreakOnMatch(m) THEN acc
       ELSE Scan([regex EXCEPT !.lastIndex = m.lastIndex], mask,
                 ProcessMatch([acc EXCEPT !.scanned = Append(@, [index |-> m.index, text |-> m.text])],
                              regex, mask, m),
                 fuel - 1)

\* a scan that advances takes at most one iteration per character, and one
\* more to find no match
ScanFuel(text) == Len(text) + 2

NoRanges == [k \in {} |-> <<>>]

\* lines 403-413: the keys rendered at the end of the call, with their ranges
Committed(source, acc) ==
    [k \in acc.matchReplaceKeys \cup {source} |->
        IF k \in DOMAIN acc.decorationOptions THEN acc.decorationOptions[k] ELSE <<>>]

\* an eviction of the unused derived keys of the pattern only
Stale_OwnKeys(source, acc) ==
    {k \in DOMAIN acc.cache.map :
        StartsWith(k, source \o Separator) /\ k \notin acc.matchReplaceKeys}

\* lines 417-425: the cached keys this call evicts
Stale(source, acc) ==
    {k \in DOMAIN acc.cache.map : k # source /\ k \notin acc.matchReplaceKeys}

\* decorations that add to the ranges a type already renders
SetDecorations_Append(view, map, byKey) ==
    LET ids == {map[k].resource : k \in DOMAIN byKey}
        keyOf(id) == CHOOSE k \in DOMAIN byKey : map[k].resource = id
        shown(id) == IF id \in ids
                     THEN (IF id \in DOMAIN view THEN view[id] ELSE <<>>) \o byKey[keyOf(id)]
                     ELSE view[id]
    IN [id \in {x \in DOMAIN view \cup ids : shown(x) # <<>>} |-> shown(id)]

\* setDecorations(type, ranges) for each key of `byKey`, in one editor's view
SetDecorations(view, map, byKey) ==
    LET ids == {map[k].resource : k \in DOMAIN byKey}
        keyOf(id) == CHOOSE k \in DOMAIN byKey : map[k].resource = id
        shown(id) == IF id \in ids THEN byKey[keyOf(id)] ELSE view[id]
    IN [id \in {x \in DOMAIN view \cup ids : shown(x) # <<>>} |-> shown(id)]

\* lines 403-425: commit and eviction after the scan
Finish(view, source, acc) ==
    LET committed == SetDecorations(view, acc.cache.map, Committed(source, acc))
        stale == Stale(source, acc)
        cleared == SetDecorations(committed, acc.cache.map, [k \in stale |-> <<>>])
    IN [map |-> [k \in DOMAIN acc.cache.map \ stale |-> acc.cache.map[k]],
        created |-> acc.cache.created,
        view |-> cleared,
        evicted |-> stale,
        touched |-> acc.matchReplaceKeys,
        scanned |-> acc.scanned,
        terminated |-> acc.terminated]

\* apply(pattern, mask) with an editor: the cache, the host's counter and the
\* editor's decorations it leaves, and what the scan did
ApplyOutcome(cache, view, regex, mask) ==
    Finish(view, regex.source,
           Scan(regex, mask,
                [cache |-> Initialize(cache, regex.source, mask),
                 decorationOptions |-> NoRanges, matchReplaceKeys |-> {},
                 scanned |-> <<>>, terminated |-> TRUE],
                ScanFuel(docText[editor])))

(***************************************************************************)
(* The inputs: editors, configured patterns, selections.                   *)
(***************************************************************************)
Editors == {1, 2}

Literal(text) == [type |-> "string", text |-> text, entries |-> {}]
Keyed(entries) == [type |-> "object", text |-> "", entries |-> entries]
Entry(key, scope, text) == [key |-> key, scope |-> scope, text |-> text, color |-> ""]
\* a replacement with a color of its own
Colored(entry, color) == [entry EXCEPT !.color = color]

\* a literal mask without scope
PatternA == [pattern |-> "a", replace |-> Literal("alpha"), scope |-> ""]
\* a literal mask with a scope filter
PatternOp == [pattern |-> "b|a", replace |-> Literal("op"), scope |-> "keyword.operator"]
\* match based replacements (README.md, "Mask Multiple Symbols At Once")
PatternAB ==
    [pattern |-> "a|b",
     replace |-> Keyed({Entry("a", "", "alpha"), Entry("b", "", "beta")}),
     scope |-> ""]
\* match based replacements with scopes (README.md, "Mask Based On TextMate
\* Scope"), one entry without text, one symbol without entry
PatternScoped ==
    [pattern |-> "ab|a|b|#",
     replace |-> Keyed({Entry("a", "keyword.operator", "alpha"),
                        Colored(Entry("b", "", "alpha"), "red"),
                        Entry("ab", "", "")}),
     scope |-> "comment"]
\* a pattern that matches the empty string
PatternEmpty == [pattern |-> "a|", replace |-> Literal("x"), scope |-> ""]

\* match based replacements of which only one has a scope filter
PatternMixed ==
    [pattern |-> "b|a|#",
     replace |-> Keyed({Entry("a", "keyword.operator", "alpha"), Entry("b", "", "beta")}),
     scope |-> ""]

PatternEntries ==
    {PatternA, PatternOp, PatternAB, PatternScoped, PatternEmpty, PatternMixed}

\* extension.ts lines 88-99: the mask updateMasks builds from a pattern entry
MaskOf(p) ==
    [type |-> p.replace.type, text |-> p.replace.text, entries |-> p.replace.entries,
     scope |-> p.scope, color |-> ""]

CursorStyles == {"line", "block"}

\* a selection: anchor and active position, in either order
SelectionsOf(text) == [anchor : Positions(text), active : Positions(text)]

\* a caret: an empty selection
CaretsOf(text) == {[anchor |-> p, active |-> p] : p \in Positions(text)}

\* the selection lists of up to n selections: none, or a primary selection
\* followed by further carets (multi-cursor)
RECURSIVE SelectionLists(_, _)
SelectionLists(text, n) ==
    IF n = 0 THEN {<<>>}
    ELSE LET shorter == SelectionLists(text, n - 1)
         IN shorter \cup {Append(l, s) : l \in shorter \ {<<>>}, s \in CaretsOf(text)}
                    \cup {<<s>> : s \in SelectionsOf(text)}

\* a document whose first line is the example of the keyed replacement, and
\* one with a block comment that spans two lines
SampleTexts == {"a b a\n", "#a\nb#a", "#ab"}

(***************************************************************************)
(* MaskController's operations as actions.                                 *)
(***************************************************************************)
NoView == [id \in {} |-> <<>>]
NoCache == [k \in {} |-> [resource |-> 0, contentText |-> "", color |-> ""]]

NoPattern == [pattern |-> "", replace |-> Literal(""), scope |-> ""]

Idle ==
    [op |-> "init", pattern |-> NoPattern, repeated |-> FALSE,
     mapBefore |-> NoCache, viewBefore |-> NoView, created |-> 0,
     evicted |-> {}, touched |-> {}, scanned |-> <<>>, terminated |-> TRUE,
     runs |-> 0, quiet |-> 0, unchanged |-> FALSE, events |-> 0, burst |-> 0,
     applied |-> <<>>, failed |-> FALSE, linesBefore |-> 0,
     line |-> 0, result |-> [defined |-> FALSE, tokens |-> <<>>], again |-> FALSE]

\* the ranges an editor shows, by cached key
Rendered(map, view) ==
    [k \in DOMAIN map |-> IF map[k].resource \in DOMAIN view THEN view[map[k].resource]
                          ELSE <<>>]

\* apply(new RegExp(p.pattern, "g"), mask of p)
Apply(p) ==
    IF editor = NoEditor
    THEN /\ UNCHANGED controllerVars
         /\ last' = [Idle EXCEPT !.op = "apply", !.pattern = p,
                                 !.events = last.events + 1,
                                 !.mapBefore = decorationTypeMap]
    ELSE \E out \in {ApplyOutcome([map |-> decorationTypeMap, created |-> 0,
                                   used |-> InUse(decorationTypeMap, decorations)],
                                  decorations[editor], NewRegExp(p.pattern), MaskOf(p))} :
            /\ decorationTypeMap' = out.map
            /\ nextResource' =
                  Cardinality(InUse(out.map, [decorations EXCEPT ![editor] = out.view]))
            /\ decorations' = [decorations EXCEPT ![editor] = out.view]
            /\ UNCHANGED editor
            /\ last' = [Idle EXCEPT
                           !.op = "apply", !.pattern = p,
                           !.events = last.events + 1,
                           !.repeated = (last.op = "apply" /\ last.pattern = p),
                           !.mapBefore = decorationTypeMap,
                           !.viewBefore = decorations[editor],
                           !.created = out.created,
                           !.evicted = out.evicted, !.touched = out.touched,
                           !.scanned = out.scanned, !.terminated = out.terminated]

(***************************************************************************)
(* SpecApply: one call of apply on a freshly constructed controller, for   *)
(* every document, selection list, caret style and tokenizer state within  *)
(* the bounds.                                                             *)
(***************************************************************************)
ExtensionIdle ==
    /\ configuration = <<>>
    /\ userMasks = <<>>
    /\ timeout = 0
    /\ timers = {}
    /\ languageScopeName = ""
    /\ awaiting = <<>>

InitApply ==
    /\ \E text \in StringsUpTo(MaxDocLen) \cup SampleTexts :
         /\ docText = [e \in Editors |-> IF e = 1 THEN text ELSE ""]
         /\ \E sels \in SelectionLists(text, MaxSel) :
              selections = [e \in Editors |->
                              IF e = 1 THEN sels
                              ELSE <<[anchor |-> PositionAt("", 0), active |-> PositionAt("", 0)]>>]
    /\ isDirty = [e \in Editors |-> FALSE]
    /\ cursorStyle \in CursorStyles
    /\ activeTextEditor = 1
    /\ editor = 1
    /\ decorationTypeMap = NoCache
    /\ decorations = [e \in Editors |-> NoView]
    /\ nextResource = 0
    /\ document = 1
    /\ grammar \in {NoGrammar, "source.ts"}
    /\ grammarState = TokenizedFrom(EmptyMap, document, grammar)
    /\ ExtensionIdle
    /\ last = Idle

ApplyOnce ==
    /\ last.op = "init"
    /\ \E p \in PatternEntries : Apply(p)
    /\ UNCHANGED <<hostVars, tokenizerVars, extensionVars>>

NextApply == ApplyOnce

SpecApply == InitApply /\ [][NextApply]_vars

(***************************************************************************)
(* SpecController: sequences of MaskController calls (setEditor, apply,    *)
(* clear) on two editors, with the selections changing in between.  The    *)
(* caller keeps the tokenizer on the controller's document, as activate    *)
(* does.                                                                   *)
(***************************************************************************)
MaxCalls == 5

\* fewer than MaxCalls calls of the controller were made
Callable == last.events < MaxCalls

\* the arguments of setEditor
ControllerEditors == Editors \cup {NoEditor}

\* a caret at an offset of a text
CaretAt(text, offset) ==
    [anchor |-> PositionAt(text, offset), active |-> PositionAt(text, offset)]

\* no selection, a caret at either end of the text, or both
SampleSelections(text) ==
    {<<>>, <<CaretAt(text, 0)>>, <<CaretAt(text, Len(text))>>,
     <<CaretAt(text, Len(text)), CaretAt(text, 0)>>}

\* lines 214-219 of clear(): an empty range list for every cached resource,
\* in the current editor if there is one
ClearedDecorations ==
    IF editor # NoEditor
    THEN [decorations EXCEPT ![editor] =
             SetDecorations(@, decorationTypeMap,
                            [k \in DOMAIN decorationTypeMap |-> <<>>])]
    ELSE decorations

\* clear(), lines 213-223
Clear ==
    /\ decorations' = ClearedDecorations
    /\ decorationTypeMap' = NoCache
    /\ nextResource' = Cardinality(InUse(NoCache, ClearedDecorations))
    /\ UNCHANGED editor
    /\ last' = [Idle EXCEPT !.op = "clear", !.events = last.events + 1,
                            !.mapBefore = decorationTypeMap,
                            !.viewBefore = IF editor # NoEditor THEN decorations[editor]
                                           ELSE NoView]

InitController ==
    /\ docText = [e \in Editors |-> IF e = 1 THEN "a b a\n" ELSE "#a\nb#a"]
    /\ selections = [e \in Editors |-> <<CaretAt(docText[e], Len(docText[e]))>>]
    /\ isDirty = [e \in Editors |-> FALSE]
    /\ cursorStyle \in CursorStyles
    /\ activeTextEditor \in ControllerEditors
    /\ editor = activeTextEditor
    /\ decorationTypeMap = NoCache
    /\ decorations = [e \in Editors |-> NoView]
    /\ nextResource = 0
    /\ document = editor
    /\ grammar = "source.ts"
    /\ grammarState = TokenizedFrom(EmptyMap, document, grammar)
    /\ ExtensionIdle
    /\ last = Idle

ControllerApply ==
    /\ Callable
    /\ \E p \in PatternEntries : Apply(p)
    /\ UNCHANGED <<hostVars, tokenizerVars, extensionVars>>

ControllerClear ==
    /\ Callable
    /\ Clear
    /\ UNCHANGED <<hostVars, tokenizerVars, extensionVars>>

\* extension.ts lines 143-149: setEditor, setDocument, tokenize
ControllerSetEditor ==
    \E e \in ControllerEditors :
        /\ Callable
        /\ e # editor
        /\ activeTextEditor' = e
        /\ editor' = e
        /\ document' = e
        /\ grammarState' = Tokenized(e, grammar)
        /\ last' = [Idle EXCEPT !.op = "setEditor", !.events = last.events + 1]
        /\ UNCHANGED <<docText, isDirty, selections, cursorStyle, userMasks, decorations,
                       nextResource, decorationTypeMap, grammar, extensionVars>>

\* the user moves the carets of the active editor
ControllerSelect ==
    /\ Callable
    /\ activeTextEditor # NoEditor
    /\ \E sels \in SampleSelections(docText[activeTextEditor]) :
         /\ sels # selections[activeTextEditor]
         /\ selections' = [selections EXCEPT ![activeTextEditor] = sels]
    /\ last' = [Idle EXCEPT !.op = "select", !.events = last.events + 1]
    /\ UNCHANGED <<docText, isDirty, cursorStyle, activeTextEditor, userMasks,
                   controllerVars, tokenizerVars, extensionVars>>

NextController ==
    \/ ControllerApply
    \/ ControllerClear
    \/ ControllerSetEditor
    \/ ControllerSelect

SpecController == InitController /\ [][NextController]_vars

(***************************************************************************)
(* SpecTokenizer: sequences of ScopedDocument calls (setDocument,          *)
(* setGrammar, clearGrammar, tokenize) while the documents are edited.     *)
(***************************************************************************)
\* a comment opened on line 2 and closed on line 4
CommentDoc == "a\na\n#a\na\na#b"

TokenizerTexts == {"", "a b a\n", "#a\nb#a", CommentDoc}

ControllerIdle ==
    /\ decorations = [e \in Editors |-> NoView]
    /\ nextResource = 0
    /\ editor = activeTextEditor
    /\ decorationTypeMap = NoCache

\* new ScopedDocument(document), lines 15-20
InitTokenizer ==
    /\ docText \in [Editors -> TokenizerTexts]
    /\ selections = [e \in Editors |-> <<>>]
    /\ isDirty = [e \in Editors |-> FALSE]
    /\ cursorStyle = "line"
    /\ activeTextEditor \in Editors \cup {NoEditor}
    /\ ControllerIdle
    /\ document = activeTextEditor
    /\ grammar = NoGrammar
    /\ grammarState = EmptyMap
    /\ ExtensionIdle
    /\ last = Idle

\* setDocument(document), lines 36-38
SetDocument ==
    /\ \E d \in Editors \cup {NoEditor} :
         /\ d # document
         /\ document' = d
    /\ last' = [Idle EXCEPT !.op = "setDocument"]
    /\ UNCHANGED <<hostVars, controllerVars, grammar, grammarState, extensionVars>>

\* setGrammar(grammar), lines 25-27
SetGrammar ==
    /\ \E g \in Grammars \cup {NoGrammar} :
         /\ g # grammar
         /\ grammar' = g
    /\ last' = [Idle EXCEPT !.op = "setGrammar"]
    /\ UNCHANGED <<hostVars, controllerVars, document, grammarState, extensionVars>>

\* clearGrammar(), lines 43-46
ClearGrammar ==
    /\ grammarState' = EmptyMap
    /\ grammar' = NoGrammar
    /\ last' = [Idle EXCEPT !.op = "clearGrammar"]
    /\ UNCHANGED <<hostVars, controllerVars, document, extensionVars>>

\* tokenize(), lines 60-70
Tokenize ==
    /\ grammarState' = Tokenized(document, grammar)
    /\ last' = [Idle EXCEPT !.op = "tokenize",
                            !.linesBefore = Cardinality(DOMAIN grammarState)]
    /\ UNCHANGED <<hostVars, controllerVars, document, grammar, extensionVars>>

\* the user replaces the text of a document
EditText ==
    /\ \E e \in Editors, text \in TokenizerTexts :
         /\ text # docText[e]
         /\ docText' = [docText EXCEPT ![e] = text]
         /\ isDirty' = [isDirty EXCEPT ![e] = TRUE]
    /\ last' = [Idle EXCEPT !.op = "edit"]
    /\ UNCHANGED <<selections, cursorStyle, activeTextEditor, userMasks, controllerVars,
                   tokenizerVars, extensionVars>>

\* the lines of the document, line 0 when there is none
QueryLines ==
    IF document # NoEditor THEN 0..(LineCount(docText[document]) - 1) ELSE {0}

\* a call of getTokens(lineNumber), lines 52-55
CallGetTokens ==
    /\ \E lineNumber \in QueryLines :
         /\ grammarState' = GetTokensStates(lineNumber)
         /\ last' = [Idle EXCEPT !.op = "getTokens",
                                 !.line = lineNumber,
                                 !.result = GetTokens(lineNumber),
                                 !.again = (last.op = "getTokens" /\ last.line = lineNumber)]
    /\ UNCHANGED <<hostVars, controllerVars, document, grammar, extensionVars>>

NextTokenizer ==
    \/ SetDocument
    \/ SetGrammar
    \/ ClearGrammar
    \/ Tokenize
    \/ EditText
    \/ CallGetTokens

SpecTokenizer == InitTokenizer /\ [][NextTokenizer]_vars

(***************************************************************************)
(* The extension (src/src/extension.ts): activate, its event handlers,     *)
(* the debounce timer and the update pass.                                 *)
(***************************************************************************)
DebounceDelay == 50
MaxAwaiting == 1
MaxPassResources == 4
MaxEvents == 4

\* document.languageId of the two editors
LanguageOf(e) == IF e = 1 THEN "typescript" ELSE "plaintext"

\* getLanguageScopeName(languageId) || "", lines 47-63, 123
GetLanguageScopeName(e) ==
    IF e # NoEditor /\ LanguageOf(e) = "typescript" THEN "source.ts" ELSE ""

\* what registry.loadGrammar(scopeName) resolves to, lines 25-39
LoadGrammar(scopeName) == IF scopeName \in Grammars THEN scopeName ELSE NoGrammar

\* new RegExp(source, flags) throws on this source
InvalidSource == "("
PatternInvalid == [pattern |-> InvalidSource, replace |-> Literal("x"), scope |-> ""]

\* a second literal mask without scope
PatternB == [pattern |-> "b", replace |-> Literal("beta"), scope |-> ""]

\* one element of the setting symbolMasks.masks
RuleSet(language, patterns) == [language |-> language, patterns |-> patterns]

\* values of the setting symbolMasks.masks
Configurations ==
    {<<RuleSet("typescript", <<PatternOp>>), RuleSet("plaintext", <<PatternOp>>)>>,
     <<RuleSet("plaintext", <<PatternA, PatternInvalid, PatternEmpty>>),
       RuleSet("typescript", <<PatternA, PatternB>>)>>}

\* clearTimeout that cancels nothing
ClearTimeout_Keep(pending, handle) == pending

\* clearTimeout(handle)
ClearTimeout(pending, handle) == {t \in pending : t.id # handle}

\* the handle setTimeout returns: one no pending timer has
NewHandle(pending) ==
    CHOOSE h \in 1..(Cardinality(pending) + 1) : \A t \in pending : t.id # h

\* debounceUpdateMasks(), lines 113-118: the pending timers and the handle
Debounced(pending, handle) ==
    LET kept == IF handle # 0 THEN ClearTimeout(pending, handle) ELSE pending
        h == NewHandle(kept)
    IN [timers |-> kept \cup {[id |-> h, remaining |-> DebounceDelay]}, timeout |-> h]

\* lines 83-86: the patterns of the rule-sets that match the document, in order
RECURSIVE MatchingPatterns(_, _, _)
MatchingPatterns(masks, i, d) ==
    IF i > Len(masks) THEN <<>>
    ELSE (IF masks[i].language = LanguageOf(d) THEN masks[i].patterns ELSE <<>>)
         \o MatchingPatterns(masks, i + 1, d)

\* lines 86-100: apply for each pattern in turn; new RegExp throws on an
\* invalid source and the catch of line 104 ends the pass
RECURSIVE Pass(_, _, _)
Pass(patterns, i, st) ==
    IF i > Len(patterns) THEN st
    ELSE IF patterns[i].pattern = InvalidSource THEN [st EXCEPT !.failed = TRUE]
    ELSE LET out == ApplyOutcome([map |-> st.map, created |-> st.created,
                                  used |-> InUse(st.map, [decorations EXCEPT
                                                             ![editor] = st.view])],
                                 st.view,
                                 NewRegExp(patterns[i].pattern), MaskOf(patterns[i]))
         IN Pass(patterns, i + 1,
                 [map |-> out.map, created |-> out.created, view |-> out.view,
                  failed |-> FALSE,
                  applied |-> Append(st.applied,
                                     [pattern |-> patterns[i],
                                      rendered |-> Rendered(out.map, out.view)])])

\* the history record after a step of the extension that is no update pass
After(op, scheduled, changed) ==
    [Idle EXCEPT !.op = IF scheduled THEN "scheduled" ELSE "event",
                 !.runs = IF scheduled THEN 0 ELSE last.runs,
                 !.quiet = IF scheduled THEN 0 ELSE last.quiet,
                 !.unchanged = last.unchanged /\ ~changed,
                 !.events = last.events,
                 !.burst = IF ~scheduled THEN last.burst
                           ELSE IF \E t \in timers : t.remaining > 0 THEN last.burst + 1
                           ELSE 1]

\* the history record after the handler of an event of the host
AfterEvent(op, scheduled, changed) ==
    [After(op, scheduled, changed) EXCEPT !.events = last.events + 1]

\* the host has delivered fewer than MaxEvents events
Deliverable == last.events < MaxEvents

\* a call of debounceUpdateMasks()
Schedule ==
    /\ timers' = Debounced(timers, timeout).timers
    /\ timeout' = Debounced(timers, timeout).timeout

\* the continuations waiting for registry.loadGrammar, without the i-th
Resumed(i) == SubSeq(awaiting, 1, i - 1) \o SubSeq(awaiting, i + 1, Len(awaiting))

Await(handler, scopeName) == Append(awaiting, [handler |-> handler, scopeName |-> scopeName])

\* activate(), lines 68-72 and 123-127: the state when activate returns, the
\* grammar of the active document still loading
Init ==
    /\ docText = [e \in Editors |-> IF e = 1 THEN "a b a\n" ELSE "#a\nb#a"]
    /\ selections = [e \in Editors |-> <<CaretAt(docText[e], Len(docText[e]))>>]
    /\ isDirty = [e \in Editors |-> FALSE]
    /\ cursorStyle = "line"
    /\ activeTextEditor \in Editors \cup {NoEditor}
    /\ userMasks \in Configurations
    /\ ControllerIdle
    /\ document = editor
    /\ grammar = NoGrammar
    /\ grammarState = EmptyMap
    /\ configuration = userMasks
    /\ timeout = 0
    /\ timers = {}
    /\ languageScopeName = GetLanguageScopeName(editor)
    /\ awaiting = <<[handler |-> "activate", scopeName |-> languageScopeName]>>
    /\ last = Idle

\* lines 128-132: the grammar of activate is loaded
ActivateLoaded ==
    \E i \in 1..Len(awaiting) :
        /\ awaiting[i].handler = "activate"
        /\ awaiting' = Resumed(i)
        /\ grammar' = LoadGrammar(awaiting[i].scopeName)
        /\ grammarState' = Tokenized(document, LoadGrammar(awaiting[i].scopeName))
        /\ Schedule
        /\ last' = After("activateLoaded", TRUE, FALSE)
        /\ UNCHANGED <<hostVars, controllerVars, document, configuration, languageScopeName>>

\* lines 133-137: loading the grammar of activate failed
ActivateFailed ==
    \E i \in 1..Len(awaiting) :
        /\ awaiting[i].handler = "activate"
        /\ awaiting[i].scopeName \in Grammars
        /\ awaiting' = Resumed(i)
        /\ grammar' = NoGrammar
        /\ grammarState' = EmptyMap
        /\ Schedule
        /\ last' = After("activateFailed", TRUE, FALSE)
        /\ UNCHANGED <<hostVars, controllerVars, document, configuration, languageScopeName>>

\* onDidChangeActiveTextEditor, lines 142-152, up to the await of line 148
OnDidChangeActiveTextEditor ==
    \E e \in Editors \cup {NoEditor} :
        /\ Deliverable
        /\ e # activeTextEditor
        /\ activeTextEditor' = e
        /\ editor' = e
        /\ document' = e
        /\ languageScopeName' = GetLanguageScopeName(e)
        /\ IF e # NoEditor /\ GetLanguageScopeName(e) # ""
           THEN /\ Len(awaiting) < MaxAwaiting
                /\ awaiting' = Await("editor", GetLanguageScopeName(e))
                /\ UNCHANGED <<timers, timeout>>
                /\ last' = AfterEvent("editor", FALSE, TRUE)
           ELSE /\ Schedule
                /\ UNCHANGED awaiting
                /\ last' = AfterEvent("editor", TRUE, TRUE)
        /\ UNCHANGED <<docText, isDirty, selections, cursorStyle, userMasks, decorations,
                       nextResource, decorationTypeMap, grammar, grammarState, configuration>>

\* lines 148-151: the grammar awaited by onDidChangeActiveTextEditor is loaded
EditorLoaded ==
    \E i \in 1..Len(awaiting) :
        /\ awaiting[i].handler = "editor"
        /\ awaiting' = Resumed(i)
        /\ grammar' = LoadGrammar(awaiting[i].scopeName)
        /\ grammarState' = Tokenized(document, LoadGrammar(awaiting[i].scopeName))
        /\ Schedule
        /\ last' = After("editorLoaded", TRUE, FALSE)
        /\ UNCHANGED <<hostVars, controllerVars, document, configuration, languageScopeName>>

\* onDidSaveTextDocument for the active document, lines 159-166, up to the
\* await of line 163
OnDidSaveTextDocument ==
    \E d \in {activeTextEditor} \ {NoEditor} :
        /\ Deliverable
        /\ isDirty' = [isDirty EXCEPT ![d] = FALSE]
        /\ languageScopeName' = GetLanguageScopeName(editor)
        /\ IF editor # NoEditor /\ GetLanguageScopeName(editor) # ""
           THEN /\ Len(awaiting) < MaxAwaiting
                /\ awaiting' = Await("save", GetLanguageScopeName(editor))
           ELSE UNCHANGED awaiting
        /\ last' = AfterEvent("save", FALSE, FALSE)
        /\ UNCHANGED <<docText, selections, cursorStyle, activeTextEditor, userMasks,
                       controllerVars, tokenizerVars, configuration, timeout, timers>>

\* lines 163-164: the grammar awaited by onDidSaveTextDocument is loaded
SaveLoaded ==
    \E i \in 1..Len(awaiting) :
        /\ awaiting[i].handler = "save"
        /\ awaiting' = Resumed(i)
        /\ grammar' = LoadGrammar(awaiting[i].scopeName)
        /\ grammarState' = Tokenized(document, LoadGrammar(awaiting[i].scopeName))
        /\ last' = After("saveLoaded", FALSE, FALSE)
        /\ UNCHANGED <<hostVars, controllerVars, document, configuration, timeout, timers,
                       languageScopeName>>

\* lines 148 and 163: the awaited loadGrammar rejects and the handler ends
HandlerFailed ==
    \E i \in 1..Len(awaiting) :
        /\ awaiting[i].handler \in {"editor", "save"}
        /\ awaiting' = Resumed(i)
        /\ last' = After("handlerFailed", FALSE, FALSE)
        /\ UNCHANGED <<hostVars, controllerVars, tokenizerVars, configuration, timeout,
                       timers, languageScopeName>>

\* the selections the user makes in a text: a caret at either end
UserSelections(text) == {<<CaretAt(text, 0)>>, <<CaretAt(text, Len(text))>>}

\* onDidChangeTextEditorSelection for the first editor, lines 171-180
OnDidChangeTextEditorSelection ==
    \E e \in {1} : \E sels \in UserSelections(docText[e]) :
        /\ Deliverable
        /\ sels # selections[e]
        /\ selections' = [selections EXCEPT ![e] = sels]
        /\ grammarState' =
              IF languageScopeName # "" /\ document # NoEditor /\ isDirty[document]
              THEN Tokenized(document, grammar)
              ELSE grammarState
        /\ IF e = editor
           THEN /\ Schedule
                /\ last' = AfterEvent("selection", TRUE, TRUE)
           ELSE /\ UNCHANGED <<timers, timeout>>
                /\ last' = AfterEvent("selection", FALSE, FALSE)
        /\ UNCHANGED <<docText, isDirty, cursorStyle, activeTextEditor, userMasks,
                       controllerVars, document, grammar, configuration,
                       languageScopeName, awaiting>>

\* the text an edit of the user leaves
EditedText(text) == IF text = "a b a\n" THEN "#a\nb#a" ELSE "a b a\n"

\* the user edits the first document while it is active; no handler of the
\* extension listens
UserEdit ==
    /\ Deliverable
    /\ activeTextEditor = 1
    /\ docText' = [docText EXCEPT ![activeTextEditor] = EditedText(@)]
    /\ selections' = [selections EXCEPT ![activeTextEditor] =
                         <<CaretAt(EditedText(docText[activeTextEditor]),
                                   Len(EditedText(docText[activeTextEditor])))>>]
    /\ isDirty' = [isDirty EXCEPT ![activeTextEditor] = TRUE]
    /\ last' = AfterEvent("edit", FALSE, TRUE)
    /\ UNCHANGED <<cursorStyle, activeTextEditor, userMasks, controllerVars, tokenizerVars,
                   extensionVars>>

\* onDidChangeConfiguration for a change of symbolMasks, lines 185-195
OnDidChangeConfiguration ==
    \E c \in Configurations :
        /\ Deliverable
        /\ userMasks' = c
        /\ decorations' = ClearedDecorations
        /\ decorationTypeMap' = NoCache
        /\ nextResource' = Cardinality(InUse(NoCache, ClearedDecorations))
        /\ configuration' = c
        /\ languageScopeName' = GetLanguageScopeName(editor)
        /\ grammarState' = IF GetLanguageScopeName(editor) # ""
                           THEN Tokenized(document, grammar)
                           ELSE grammarState
        /\ Schedule
        /\ last' = AfterEvent("configuration", TRUE, TRUE)
        /\ UNCHANGED <<docText, isDirty, selections, cursorStyle, activeTextEditor,
                       editor, document, grammar, awaiting>>

\* the amounts of time that pass in one step
Elapses == {DebounceDelay \div 2, DebounceDelay}

\* time passes while a timer is pending
Tick ==
    \E dt \in Elapses :
        /\ \E t \in timers : t.remaining > 0
        /\ timers' = {[t EXCEPT !.remaining = Max(0, @ - dt)] : t \in timers}
        /\ last' = [After("tick", FALSE, FALSE) EXCEPT
                       !.quiet = Min(DebounceDelay, last.quiet + dt)]
        /\ UNCHANGED <<hostVars, controllerVars, tokenizerVars, configuration, timeout,
                       languageScopeName, awaiting>>

\* updateMasks(), lines 77-107, run by a timer that is due
UpdateMasks ==
    \E t \in timers :
        /\ t.remaining = 0
        /\ timers' = timers \ {t}
        /\ \E st \in {IF document # NoEditor
                      THEN Pass(MatchingPatterns(configuration, 1, document), 1,
                                [map |-> decorationTypeMap, created |-> 0,
                                 view |-> decorations[editor], failed |-> FALSE,
                                 applied |-> <<>>])
                      ELSE [map |-> decorationTypeMap, created |-> 0,
                            view |-> NoView, failed |-> FALSE, applied |-> <<>>]} :
             /\ decorationTypeMap' = st.map
             /\ decorations' = IF document # NoEditor
                               THEN [decorations EXCEPT ![editor] = st.view]
                               ELSE decorations
             /\ nextResource' = Cardinality(InUse(decorationTypeMap', decorations'))
             /\ nextResource' <= MaxPassResources
             /\ last' = [Idle EXCEPT !.op = "updateMasks",
                                     !.runs = last.runs + 1,
                                     !.quiet = last.quiet,
                                     !.events = last.events,
                                     !.burst = last.burst,
                                     !.unchanged = TRUE,
                                     !.repeated = last.unchanged,
                                     !.created = st.created,
                                     !.applied = st.applied,
                                     !.failed = st.failed]
        /\ UNCHANGED <<hostVars, editor, tokenizerVars, configuration, timeout,
                       languageScopeName, awaiting>>

Next ==
    \/ ActivateLoaded
    \/ ActivateFailed
    \/ OnDidChangeActiveTextEditor
    \/ EditorLoaded
    \/ OnDidSaveTextDocument
    \/ SaveLoaded
    \/ HandlerFailed
    \/ OnDidChangeTextEditorSelection
    \/ UserEdit
    \/ OnDidChangeConfiguration
    \/ Tick
    \/ UpdateMasks

Spec == Init /\ [][Next]_vars

(***************************************************************************)
(* Properties of one call of apply.                                        *)
(***************************************************************************)
\* what the last call worked on
AppliedText == docText[editor]
AppliedSelections == selections[editor]
AppliedView == decorations[editor]

\* a selection's two offsets, lowest first
SelectionLow(sel) ==
    Min(OffsetAt(AppliedText, sel.anchor), OffsetAt(AppliedText, sel.active))
SelectionHigh(sel) ==
    Max(OffsetAt(AppliedText, sel.anchor), OffsetAt(AppliedText, sel.active))

\* some active selection touches [from, to], from widened by one for a caret
\* that is not line shaped
Revealed(from, to) ==
    \E j \in 1..Len(AppliedSelections) :
        /\ SelectionHigh(AppliedSelections[j]) >= (IF cursorStyle = "line" THEN from ELSE from - 1)
        /\ SelectionLow(AppliedSelections[j]) <= to

RangeOf(m) ==
    [start |-> PositionAt(AppliedText, m.index),
     end |-> PositionAt(AppliedText, m.index + Len(m.text))]

RangesOf(ranges) == {ranges[i] : i \in 1..Len(ranges)}

\* the ranges the editor shows under a cached key
RenderedUnder(k) ==
    IF k \in DOMAIN decorationTypeMap
    THEN RangesOf(Rendered(decorationTypeMap, AppliedView)[k])
    ELSE {}

\* every range the editor shows, under any decoration type
AllRendered == UNION {RangesOf(AppliedView[id]) : id \in DOMAIN AppliedView}

ScannedMatches == {last.scanned[i] : i \in 1..Len(last.scanned)}

Decorated(m) == RangeOf(m) \in AllRendered

AfterApply == last.op = "apply" /\ editor # NoEditor

\* C1 (reveal rule): after apply, no range rendered in the editor is the
\* range of a match that an active selection intersects; a line caret is
\* tested against the exact bounds of the match, any other caret against
\* the bounds with the start widened left by one character.
C1_RevealRule ==
    AfterApply =>
        \A r \in AllRendered :
            ~Revealed(OffsetAt(AppliedText, r.start), OffsetAt(AppliedText, r.end))

\* C1 witness: a block caret sits one character before a scanned match,
\* which is therefore not rendered, while another match is rendered.
C1_Witness ==
    /\ AfterApply
    /\ cursorStyle = "block"
    /\ AllRendered # {}
    /\ \E m \in ScannedMatches :
         /\ ~Decorated(m)
         /\ \E j \in 1..Len(AppliedSelections) :
              /\ SelectionHigh(AppliedSelections[j]) = m.index - 1
              /\ SelectionLow(AppliedSelections[j]) = m.index - 1

\* the scope filter in effect for a match: the entry's scope when the keyed
\* map has one for the matched text, else the mask's
EffectiveScope(p, m) ==
    IF p.replace.type = "object"
       /\ \E e \in p.replace.entries : e.key = m.text /\ e.scope # ""
    THEN (CHOOSE e \in p.replace.entries : e.key = m.text).scope
    ELSE p.scope

\* the token of the match's line that holds its first character has a scope
\* equal to the filter or below it in the dot hierarchy
StartTokenWithin(m, filter) ==
    LET pos == PositionAt(AppliedText, m.index)
        lineTokens == GetTokens(pos.line)
    IN /\ lineTokens.defined
       /\ \E t \in 1..Len(lineTokens.tokens) :
            /\ lineTokens.tokens[t].startIndex <= pos.character
            /\ pos.character < lineTokens.tokens[t].endIndex
            /\ \E s \in 1..Len(lineTokens.tokens[t].scopes) :
                 \/ lineTokens.tokens[t].scopes[s] = filter
                 \/ StartsWith(lineTokens.tokens[t].scopes[s], filter \o ".")

\* C2 (scope rule): after apply, a scanned match that no selection reveals
\* and that has an effective scope filter is decorated if and only if the
\* token holding its first character has a scope within the filter.
C2_ScopeRule ==
    AfterApply =>
        \A m \in ScannedMatches :
            (~Revealed(m.index, m.index + Len(m.text)) /\ EffectiveScope(last.pattern, m) # "")
                => (Decorated(m) <=> StartTokenWithin(m, EffectiveScope(last.pattern, m)))

\* C2, with at least one active selection: the rule the code follows
C2_ScopeRuleWithSelection ==
    (AfterApply /\ Len(AppliedSelections) > 0) =>
        \A m \in ScannedMatches :
            (~Revealed(m.index, m.index + Len(m.text)) /\ EffectiveScope(last.pattern, m) # "")
                => (Decorated(m) <=> StartTokenWithin(m, EffectiveScope(last.pattern, m)))

\* the entries of the keyed map of the applied pattern for a matched text
EntriesFor(m) ==
    IF last.pattern.replace.type = "object"
    THEN {e \in last.pattern.replace.entries : e.key = m.text}
    ELSE {}

BaseKey == last.pattern.pattern

DecoratedMatches == {m \in ScannedMatches : Decorated(m)}

OccursAt(alts, text, i) ==
    {k \in 1..Len(alts) :
        i + Len(alts[k]) <= Len(text) /\ SubSeq(text, i + 1, i + Len(alts[k])) = alts[k]}

\* the successive matches of a scan are the leftmost ones: none starts in
\* the gap before a match, and a match is the first alternative that occurs
RECURSIVE Leftmost(_, _, _, _, _)
Leftmost(alts, text, scanned, i, from) ==
    i > Len(scanned)
    \/ LET m == scanned[i]
           here == OccursAt(alts, text, m.index)
       IN /\ Len(m.text) > 0
          /\ m.index >= from
          /\ \A o \in from..(m.index - 1) : OccursAt(alts, text, o) = {}
          /\ here # {}
          /\ \E k \in here : alts[k] = m.text /\ \A j \in here : k <= j
          /\ Leftmost(alts, text, scanned, i + 1, m.index + Len(m.text))

\* where the scan of the last call stopped
ScanEnd ==
    IF last.scanned = <<>> THEN 0
    ELSE last.scanned[Len(last.scanned)].index + Len(last.scanned[Len(last.scanned)].text)

\* the next match after the scanned ones is empty, or there is none
EndsAtEmptyMatch(alts, text, from) ==
    LET starts == {i \in from..Len(text) : OccursAt(alts, text, i) # {}}
    IN starts # {}
       /\ LET i == CHOOSE x \in starts : \A y \in starts : x <= y
              here == OccursAt(alts, text, i)
          IN \E k \in here : alts[k] = "" /\ \A j \in here : k <= j

EndsWithoutMatch(alts, text, from) ==
    \A i \in from..Len(text) : OccursAt(alts, text, i) = {}

\* C9 (zero-length match guard): the scan of apply terminates; the matches
\* it processes are the successive leftmost matches from offset 0, all of
\* positive length, up to the first empty match or the end of the matches;
\* what was decorated of them is committed and nothing else is rendered.
C9_ZeroLengthGuard ==
    AfterApply =>
        /\ last.terminated
        /\ Leftmost(SplitAlternatives(BaseKey), AppliedText, last.scanned, 1, 0)
        /\ \/ EndsAtEmptyMatch(SplitAlternatives(BaseKey), AppliedText, ScanEnd)
           \/ EndsWithoutMatch(SplitAlternatives(BaseKey), AppliedText, ScanEnd)
        /\ AllRendered \subseteq {RangeOf(m) : m \in ScannedMatches}
        /\ (last.pattern = PatternEmpty /\ Len(AppliedSelections) > 0) =>
             \A m \in ScannedMatches :
                ~Revealed(m.index, m.index + Len(m.text)) => Decorated(m)

\* C9 witness: an empty match ended the scan after a match that was
\* decorated and before a later occurrence that was never considered.
C9_Witness ==
    /\ AfterApply
    /\ last.pattern = PatternEmpty
    /\ Len(last.scanned) = 1
    /\ DecoratedMatches # {}
    /\ EndsAtEmptyMatch(SplitAlternatives(BaseKey), AppliedText, ScanEnd)
    /\ \E o \in (ScanEnd + 1)..(Len(AppliedText) - 1) : CharAt(AppliedText, o) = "a"

(***************************************************************************)
(* Properties of sequences of MaskController calls.                        *)
(***************************************************************************)
\* the key the last call derives for an entry text
DerivedKeys ==
    IF last.pattern.replace.type = "object"
    THEN {BaseKey \o "@@@" \o e.text : e \in {x \in last.pattern.replace.entries : x.text # ""}}
    ELSE {}

\* C3 (stale eviction): after apply(P, mask) with an editor, the cache holds
\* P's base key and the derived keys of P under which this call rendered a
\* match, and nothing else; every other key cached before the call is gone
\* from the cache and the editor shows no range of its resource.
C3_StaleEviction ==
    AfterApply =>
        /\ BaseKey \in DOMAIN decorationTypeMap
        /\ \A k \in DOMAIN decorationTypeMap \ {BaseKey} :
             k \in DerivedKeys /\ RenderedUnder(k) # {}
        /\ \A k \in DerivedKeys : RenderedUnder(k) # {} => k \in DOMAIN decorationTypeMap
        /\ \A k \in DOMAIN last.mapBefore :
             (k # BaseKey /\ ~(k \in DerivedKeys /\ RenderedUnder(k) # {}))
                => /\ k \notin DOMAIN decorationTypeMap
                   /\ last.mapBefore[k].resource \notin DOMAIN AppliedView

\* C3 witness: an apply evicted another pattern's key, whose resource showed
\* ranges in the editor before the call.
C3_Witness ==
    /\ AfterApply
    /\ \E k \in DOMAIN last.mapBefore :
         /\ k \notin DOMAIN decorationTypeMap
         /\ ~StartsWith(k, BaseKey)
         /\ last.mapBefore[k].resource \in DOMAIN last.viewBefore

AfterTokenize == last.op = "tokenize" /\ document # NoEditor /\ grammar # NoGrammar

\* the end-state of line i when lines 0..i are tokenized in increasing order
\* from the empty state
RECURSIVE ChainState(_, _, _)
ChainState(g, text, i) ==
    IF i < 0 THEN Null
    ELSE TokenizeLine(g, LineText(text, i), ChainState(g, text, i - 1)).ruleStack

ChainTokens(g, text, i) == TokenizeLine(g, LineText(text, i), ChainState(g, text, i - 1)).tokens

\* the scopes of the first token of a token list
FirstScopes(tokens) == {tokens[1].scopes[j] : j \in 1..Len(tokens[1].scopes)}

\* C6 (chained tokenization): after tokenize() on a document with a grammar,
\* getTokens(i) returns for every line i the tokens of the chain that
\* tokenizes lines 0..i in order from the empty state; in the document whose
\* comment runs from line 2 to line 4, line 4 starts inside the comment,
\* which line 4 tokenized alone does not show.
C6_ChainedTokenization ==
    AfterTokenize =>
        /\ \A i \in 0..(LineCount(docText[document]) - 1) :
             /\ GetTokens(i).defined
             /\ GetTokens(i).tokens = ChainTokens(grammar, docText[document], i)
        /\ docText[document] = CommentDoc =>
             /\ "comment.block" \in FirstScopes(GetTokens(4).tokens)
             /\ "comment.block" \notin
                   FirstScopes(TokenizeLine(grammar, LineText(CommentDoc, 4), Null).tokens)

\* C6 witness: tokenize() ran on the document whose comment spans lines 2 to
\* 4, and the tokens of lines 3 and 4 differ from those of the lines alone.
C6_Witness ==
    /\ AfterTokenize
    /\ docText[document] = CommentDoc
    /\ \A i \in {3, 4} :
         GetTokens(i).tokens # TokenizeLine(grammar, LineText(CommentDoc, i), Null).tokens

(***************************************************************************)
(* Properties of the extension.                                            *)
(***************************************************************************)
AfterPass == last.op = "updateMasks"

\* the pattern sources of the applies of the last pass, all different
DistinctSources ==
    \A i, j \in 1..Len(last.applied) :
        i # j => last.applied[i].pattern.pattern # last.applied[j].pattern.pattern

\* C4 (a pattern stays active): at the end of an update pass that applied
\* two or more patterns with distinct sources, every one of them still has
\* its resource in the cache and the ranges its apply rendered are still
\* rendered.
C4_PatternsStayActive ==
    (AfterPass /\ Len(last.applied) >= 2 /\ DistinctSources) =>
        \A i \in 1..Len(last.applied) :
            /\ last.applied[i].pattern.pattern \in DOMAIN decorationTypeMap
            /\ \A k \in DOMAIN last.applied[i].rendered :
                 /\ k \in DOMAIN decorationTypeMap
                 /\ Rendered(decorationTypeMap, AppliedView)[k] = last.applied[i].rendered[k]

\* C7 (debounce coalescing): at most one timer is pending; right after a
\* call of debounceUpdateMasks the pending timer is the new one, with the
\* whole delay to go; since the last such call updateMasks has run at most
\* once, has run exactly once when no timer is pending any more, and ran no
\* earlier than the delay after that call.
C7_DebounceCoalescing ==
    /\ Cardinality(timers) <= 1
    /\ last.op = "scheduled" => timers = {[id |-> timeout, remaining |-> DebounceDelay]}
    /\ last.runs <= 1
    /\ timeout # 0 => (timers = {} <=> last.runs = 1)
    /\ AfterPass => last.quiet >= DebounceDelay

\* C7 witness: updateMasks has run once after a burst of three calls of
\* debounceUpdateMasks, each made before the delay of the one before passed.
C7_Witness ==
    /\ AfterPass
    /\ last.burst >= 3
    /\ last.runs = 1
    /\ timers = {}

\* C10 (resource reuse): an update pass that follows another with the
\* configuration, the document and the selections unchanged creates no
\* resource.
C10_ResourceReuse ==
    (AfterPass /\ last.repeated) => last.created = 0

(***************************************************************************)
(* Properties of apply without a grammar, and across passes.               *)
(***************************************************************************)
\* no active selection touches the match
Untouched(m) == ~Revealed(m.index, m.index + Len(m.text))

\* C11 (no grammar): after apply while the tokenizer has no grammar,
\* getTokens returns nothing for every line of the document and no match
\* with a scope filter (of the mask or of its keyed entry) is decorated; a
\* match without scope filter is decorated, with or without a grammar, if
\* and only if there is a selection and none touches it.
C11_NoGrammar ==
    AfterApply =>
        /\ grammar = NoGrammar =>
             /\ \A i \in 0..(LineCount(AppliedText) - 1) : ~GetTokens(i).defined
             /\ \A m \in ScannedMatches :
                  EffectiveScope(last.pattern, m) # "" => ~Decorated(m)
        /\ \A m \in ScannedMatches :
             EffectiveScope(last.pattern, m) = ""
                => (Decorated(m) <=> (Len(AppliedSelections) > 0 /\ Untouched(m)))

\* C11 witness: without a grammar, one apply left a match with a scope
\* filter undecorated that no selection touches, and decorated a match
\* without scope filter.
C11_Witness ==
    /\ AfterApply
    /\ grammar = NoGrammar
    /\ Len(AppliedSelections) > 0
    /\ \E m \in ScannedMatches :
         EffectiveScope(last.pattern, m) # "" /\ Untouched(m) /\ ~Decorated(m)
    /\ \E m \in ScannedMatches :
         EffectiveScope(last.pattern, m) = "" /\ Decorated(m)

\* the ranges the editor shows under the keys of the cache
CachedRendered == UNION {RenderedUnder(k) : k \in DOMAIN decorationTypeMap}

\* C12 (decoration depends only on the current pass): after every apply of
\* a sequence of calls, a match without scope filter that no active
\* selection touches is rendered, whatever the calls before did.
C12_CurrentPassOnly ==
    AfterApply =>
        \A m \in ScannedMatches :
            (EffectiveScope(last.pattern, m) = "" /\ Untouched(m))
                => RangeOf(m) \in CachedRendered

\* C12, with at least one active selection: a match without scope filter is
\* rendered if and only if no selection touches it
C12_CurrentPassOnlyWithSelection ==
    (AfterApply /\ Len(AppliedSelections) > 0) =>
        \A m \in ScannedMatches :
            EffectiveScope(last.pattern, m) = ""
                => (RangeOf(m) \in CachedRendered <=> Untouched(m))


\* the cached keys under which the range of a match is rendered
KeysRendering(m) == {k \in DOMAIN decorationTypeMap : RangeOf(m) \in RenderedUnder(k)}

\* the entries with a replacement text for a matched text
TextEntriesFor(m) == {e \in EntriesFor(m) : e.text # ""}

\* C13 (derived key identity): for a keyed-replacement mask, two decorated
\* matches whose matched texts are different keys of the map (each with a
\* replacement text) are rendered under two different cache keys, and every
\* decorated match is rendered with a resource built from its own override:
\* the override's text and the override's color.
C13_DerivedKeyIdentity ==
    (AfterApply /\ last.pattern.replace.type = "object") =>
        /\ \A m1 \in DecoratedMatches : \A m2 \in DecoratedMatches :
              (/\ m1.text # m2.text
               /\ TextEntriesFor(m1) # {}
               /\ TextEntriesFor(m2) # {})
              => KeysRendering(m1) \cap KeysRendering(m2) = {}
        /\ \A m \in DecoratedMatches : \A e \in TextEntriesFor(m) :
              \A k \in KeysRendering(m) :
                 /\ decorationTypeMap[k].contentText = e.text
                 /\ decorationTypeMap[k].color = e.color

\* the patterns an update pass finds for the active document, in
\* configuration order
PassPatterns == MatchingPatterns(configuration, 1, document)

ValidPattern(p) == p.pattern # InvalidSource

AppliedPatterns == [i \in 1..Len(last.applied) |-> last.applied[i].pattern]

\* C14 (per-pattern error isolation): an update pass with a document applies
\* every configured pattern of the document's language whose regular
\* expression is valid, in configuration order, whether it stands before or
\* after an invalid one.
C14_ErrorIsolation ==
    (AfterPass /\ document # NoEditor) =>
        AppliedPatterns = SelectSeq(PassPatterns, ValidPattern)

\* what holds instead: the pass applies the patterns before the first
\* invalid one and nothing after it
C14_PassStopsAtInvalid ==
    (AfterPass /\ document # NoEditor) =>
        /\ \E n \in 0..Len(PassPatterns) :
              /\ AppliedPatterns = SubSeq(PassPatterns, 1, n)
              /\ \A i \in 1..n : ValidPattern(PassPatterns[i])
              /\ n < Len(PassPatterns) => ~ValidPattern(PassPatterns[n + 1])
        /\ last.failed <=> \E i \in 1..Len(PassPatterns) : ~ValidPattern(PassPatterns[i])

\* the steps after which no grammar is available: a load that fails, a
\* load that yields no grammar, and a handler that resolves no grammar scope
LoadFails == ActivateFailed \/ HandlerFailed

LoadYieldsNone ==
    /\ ActivateLoaded \/ EditorLoaded \/ SaveLoaded
    /\ \E i \in 1..Len(awaiting) :
          awaiting' = Resumed(i) /\ LoadGrammar(awaiting[i].scopeName) = NoGrammar

NoScopeResolved ==
    /\ OnDidChangeActiveTextEditor \/ OnDidSaveTextDocument
    /\ languageScopeName' = ""

NoGrammarState == grammar = NoGrammar /\ grammarState = EmptyMap

\* C15 (grammar failure leads to the no-grammar state): after a grammar load
\* that fails or yields no grammar, and after an active-editor change or a
\* save that resolves no grammar scope, the tokenizer has no grammar and an
\* empty continuation-state map.
C15_GrammarFailure ==
    [][(LoadFails \/ LoadYieldsNone \/ NoScopeResolved) => NoGrammarState']_vars

\* what holds instead: only activation reaches the no-grammar state
C15_ActivationOnly ==
    [][((ActivateFailed \/ LoadYieldsNone) => NoGrammarState')
       /\ ((HandlerFailed \/ NoScopeResolved) => UNCHANGED <<grammar, grammarState>>)]_vars

\* the step that ends the handler of a triggering event: an active-editor
\* change, a save, a selection change in the active editor, a change of the
\* configuration; a handler that awaits a grammar ends when the load
\* resolves or rejects
HandlerEnds ==
    \/ OnDidChangeActiveTextEditor /\ awaiting' = awaiting
    \/ OnDidSaveTextDocument /\ awaiting' = awaiting
    \/ EditorLoaded
    \/ SaveLoaded
    \/ HandlerFailed
    \/ OnDidChangeTextEditorSelection /\ editor = 1
    \/ OnDidChangeConfiguration

\* C16 (every triggering event schedules a recomputation): when the handler
\* of a triggering event ends and no other handler is waiting, a deferred
\* update pass is pending, so that a pass runs later than the event.
C16_EventSchedules ==
    [][(HandlerEnds /\ awaiting' = <<>>) => timers' # {}]_vars

\* what holds instead: the handlers that end by calling debounceUpdateMasks
\* leave the timer set with the whole delay
C16_ScheduledByDebounce ==
    [][((\/ OnDidChangeActiveTextEditor /\ awaiting' = awaiting
         \/ EditorLoaded
         \/ OnDidChangeTextEditorSelection /\ editor = 1
         \/ OnDidChangeConfiguration)
        /\ ~SaveLoaded /\ ~HandlerFailed)
       => timers' = {[id |-> timeout', remaining |-> DebounceDelay]}]_vars

(***************************************************************************)
(* Properties of the continuation-state map.                               *)
(***************************************************************************)
\* C17 (full rebuild of continuation state): after every tokenize() the
\* continuation-state map is empty when the document or the grammar is
\* absent; otherwise its keys are exactly 0..lineCount-1 of the current
\* document and each entry is the end-state of its line in the chain over
\* the current text, so no entry predates the call.
C17_FullRebuild ==
    last.op = "tokenize" =>
        IF document = NoEditor \/ grammar = NoGrammar
        THEN grammarState = EmptyMap
        ELSE /\ DOMAIN grammarState = 0..(LineCount(docText[document]) - 1)
             /\ \A i \in DOMAIN grammarState :
                  grammarState[i] = ChainState(grammar, docText[document], i)

\* C17 witness: tokenize() ran on a document with fewer lines than the map
\* had entries before the call.
C17_Witness ==
    /\ AfterTokenize
    /\ last.linesBefore > LineCount(docText[document])
    /\ DOMAIN grammarState = 0..(LineCount(docText[document]) - 1)

\* C18 (getTokens is a pure query): a call of getTokens leaves the
\* continuation-state map, the grammar and the document reference as they
\* were, and a call that follows a call for the same line, with no tokenize
\* or setter call in between, returns what that call returned.
C18_PureQuery ==
    [][last'.op = "getTokens" =>
          /\ UNCHANGED <<grammarState, grammar, document>>
          /\ (last.op = "getTokens" /\ last.line = last'.line)
                => last'.result = last.result]_vars

\* C18 witness: getTokens was called twice in a row for a line that starts
\* inside a comment, whose tokens depend on the stored state of the line
\* before.
C18_Witness ==
    /\ last.op = "getTokens"
    /\ last.again
    /\ last.result.defined
    /\ document # NoEditor
    /\ (last.line - 1) \in DOMAIN grammarState
    /\ last.result.tokens #
          TokenizeLine(grammar, LineText(docText[document], last.line), Null).tokens

(***************************************************************************)
(* Properties of the controller without an editor.                         *)
(***************************************************************************)
\* C19 (no editor means no-op): while the controller has no editor, a call
\* of apply or clear leaves the resource cache and the ranges rendered in
\* every editor unchanged.
C19_NoEditorNoOp ==
    [][(editor = NoEditor /\ last'.op \in {"apply", "clear"})
          => UNCHANGED <<decorationTypeMap, decorations>>]_vars

\* what holds instead: without an editor apply changes nothing, and clear
\* empties the cache and leaves the rendered ranges
C19_ClearEmptiesCache ==
    [][(editor = NoEditor /\ last'.op \in {"apply", "clear"})
          => /\ UNCHANGED decorations
             /\ last'.op = "apply" => UNCHANGED decorationTypeMap
             /\ last'.op = "clear" => decorationTypeMap' = NoCache]_vars

\* an update pass without a document changes neither
C19_PassWithoutDocument ==
    [][(document = NoEditor /\ last'.op = "updateMasks")
          => UNCHANGED <<decorationTypeMap, decorations>>]_vars

(***************************************************************************)
(* Properties of the token data an update pass reads.                      *)
(***************************************************************************)
\* a pattern whose matches are decided by a scope filter
HasScopeFilter(p) ==
    \/ p.scope # ""
    \/ p.replace.type = "object" /\ \E e \in p.replace.entries : e.scope # ""

\* C20 (fresh token data before scope-filtered apply): in every interleaving
\* of the extension's events, when an update pass has applied a pattern with
\* a scope filter the continuation-state map is the one tokenize() yields
\* for the document, the text and the grammar of that moment.
C20_FreshTokens ==
    (AfterPass /\ \E i \in 1..Len(last.applied) : HasScopeFilter(last.applied[i].pattern))
        => grammarState = TokenizedFrom(EmptyMap, document, grammar)

(***************************************************************************)
(* Properties of the rendered ranges across editors.                       *)
(***************************************************************************)
\* the resources the cache holds
CachedResources == {decorationTypeMap[k].resource : k \in DOMAIN decorationTypeMap}

\* the resources with ranges rendered in an editor
ShownIn(e) == {r \in DOMAIN decorations[e] : decorations[e][r] # <<>>}

\* C21 (no orphaned decorations): over any sequence of setEditor, apply and
\* clear calls, every resource with ranges rendered in some editor is in the
\* cache.
C21_NoOrphans ==
    \A e \in Editors : ShownIn(e) \subseteq CachedResources

\* what holds instead: the editor the controller is on shows no range of a
\* resource that left the cache while the controller was on it
C21_NoOrphansInCurrentEditor ==
    (editor # NoEditor /\ last.op \in {"apply", "clear"}) =>
        \A k \in DOMAIN last.mapBefore :
            k \notin DOMAIN decorationTypeMap
               => last.mapBefore[k].resource \notin ShownIn(editor)

(***************************************************************************)
(* Properties of the commit of apply.                                      *)
(***************************************************************************)
\* the key under which the last call groups a match
KeyFor(m) ==
    IF TextEntriesFor(m) # {}
    THEN BaseKey \o Separator \o (CHOOSE e \in TextEntriesFor(m) : TRUE).text
    ELSE BaseKey

\* the decision of the last call for a match: some selection exists, none
\* reveals the match, and the scope filter in effect, if any, matches
ShouldDecorate(m) ==
    /\ Len(AppliedSelections) > 0
    /\ Untouched(m)
    /\ \/ EffectiveScope(last.pattern, m) = ""
       \/ StartTokenWithin(m, EffectiveScope(last.pattern, m))

\* the ranges of the decorated matches the last call grouped under a key
GroupedUnder(k) ==
    {RangeOf(m) : m \in {x \in ScannedMatches : ShouldDecorate(x) /\ KeyFor(x) = k}}

\* the ranges shown under a cached key, with the editor that shows them
RenderedAnywhere(k) ==
    UNION {{<<e, r>> : r \in IF decorationTypeMap[k].resource \in DOMAIN decorations[e]
                             THEN RangesOf(decorations[e][decorationTypeMap[k].resource])
                             ELSE {}} : e \in Editors}

\* C22 (commit replaces, never accumulates): after apply, for every key in
\* the cache the ranges rendered under its resource are exactly the ranges
\* of the decorated matches this call grouped under the key, shown in the
\* editor of the call; no range of an earlier pass survives anywhere.
C22_CommitReplaces ==
    AfterApply =>
        \A k \in DOMAIN decorationTypeMap :
            RenderedAnywhere(k) = {<<editor, r>> : r \in GroupedUnder(k)}

\* C22 within the editor of the call: the list rendered under every cached
\* key holds exactly the ranges this call grouped under it, each once
C22_CommitReplacesInEditor ==
    AfterApply =>
        \A k \in DOMAIN decorationTypeMap :
            /\ RenderedUnder(k) = GroupedUnder(k)
            /\ Len(Rendered(decorationTypeMap, AppliedView)[k]) = Cardinality(GroupedUnder(k))

(***************************************************************************)
(* Properties of the loop over the selections.                             *)
(***************************************************************************)
\* a selection with its two endpoints exchanged
Flipped(sel) == [anchor |-> sel.active, active |-> sel.anchor]

\* the lists that hold the selections of a list in any order, each
\* selection in either direction
Rearranged(sels) ==
    LET n == Len(sels)
        orders == {f \in [1..n -> 1..n] : \A i, j \in 1..n : i # j => f[i] # f[j]}
    IN {[i \in 1..n |-> IF i \in flips THEN Flipped(sels[f[i]]) ELSE sels[f[i]]] :
           f \in orders, flips \in SUBSET (1..n)}

\* decorateSymbol of the last call's pattern for a match, under a list of
\* selections
DecisionUnder(sels, m) ==
    LET mask == MaskOf(last.pattern)
    IN SelectionLoop(AppliedText, sels, 1, FALSE, cursorStyle, m.index, Len(m.text),
                     ScopeDecision(mask, MatchReplace(mask, m.text),
                                   PositionAt(AppliedText, m.index)))

\* no selection reveals the match and the scope filter in effect, if any,
\* matches
RuleDecision(m) ==
    /\ Untouched(m)
    /\ \/ EffectiveScope(last.pattern, m) = ""
       \/ StartTokenWithin(m, EffectiveScope(last.pattern, m))

\* C23 (selection order and direction do not matter): after apply, a scanned
\* match is decorated exactly when the loop decides so under every
\* rearrangement of the selection list (any order, either direction of each
\* selection), and exactly when no selection intersects it and the scope
\* filter, if any, matches.
C23_OrderAndDirection ==
    AfterApply =>
        \A m \in ScannedMatches :
            /\ \A sels \in Rearranged(AppliedSelections) :
                  DecisionUnder(sels, m) <=> Decorated(m)
            /\ Decorated(m) <=> RuleDecision(m)

\* what holds instead: order and direction never matter, and the decision
\* is that of the rule when there is at least one selection
C23_OrderAndDirectionWithSelection ==
    AfterApply =>
        \A m \in ScannedMatches :
            /\ \A sels \in Rearranged(AppliedSelections) :
                  DecisionUnder(sels, m) <=> Decorated(m)
            /\ Len(AppliedSelections) > 0 => (Decorated(m) <=> RuleDecision(m))

(***************************************************************************)
(* Properties of apply without any selection.                              *)
(***************************************************************************)
AfterApplyWithoutSelection == AfterApply /\ AppliedSelections = <<>>

====
